---- MODULE Spec2Model ----
(***************************************************************************)
(* CareRewards Lead Manager (src/app.py): the lead classification,         *)
(* filtering, ranking, pagination and query-lookup logic of the Streamlit  *)
(* script.  A data frame is a sequence of rows; a row is a record whose    *)
(* fields are the frame's columns plus idx, the row's index label.         *)
(* A string that the code searches in is a sequence of one-character       *)
(* strings, so that substring and regular-expression search are computed.  *)
(*                                                                         *)
(* Spec        runs of main() over a loaded csv: filter, statistics, table *)
(*             tab and top-priority tab, an exception ending the run       *)
(* SpecLoad    load_data over csv files with every kind of State           *)
(* SpecRank    get_top_priority_leads(df, n) over filtered frames          *)
(* SpecPaging  the table tab over filtered frames of up to MaxItems leads  *)
(***************************************************************************)
EXTENDS Integers, Sequences, FiniteSets, TLC

VARIABLES
    csv,                \* the rows of self_insured_crm_list.csv
    cache,              \* what st.cache_data holds for load_data()
    df_original,        \* main: df_original
    request,            \* the widget values of the last script run
    status,             \* "idle" while no run is on display, else how the last run ended
    df_filtered,        \* main: df_filtered
    median,             \* create_summary_stats: the "Median Participants" metric
    total_pages,        \* main: total_pages
    page,               \* main: page (the number input's value)
    df_page,            \* main: df_page
    picked,             \* position in the selectbox's options of the entry picked
    query,              \* main: query (the text area's value)
    n_arg,              \* get_top_priority_leads: n
    top_leads,          \* main: top_leads
    avg_participants    \* main: avg_participants

vars == <<csv, cache, df_original, request, status, df_filtered, median,
          total_pages, page, df_page, picked, query, n_arg, top_leads,
          avg_participants>>

----------------------------------------------------------------------------
(* Bounds of the model *)

\* longest csv of the full script run
MaxLeads == 2
\* longest csv handed to load_data on its own
MaxLoad == 3
\* longest frame handed to get_top_priority_leads on its own
MaxRank == 4
\* largest n handed to get_top_priority_leads on its own
MaxTopN == 4
\* longest filtered frame handed to the table tab on its own
MaxItems == 120

----------------------------------------------------------------------------
(* Values *)

\* a missing value of a column (pandas NaN)
NaN == "NaN"
\* A variable of the script holds None while it is unassigned and Some(v)
\* once it is assigned v
None == <<>>
Some(v) == <<v>>
Val(o) == o[1]

Range(s) == {s[i] : i \in DOMAIN s}
Min(a, b) == IF a <= b THEN a ELSE b

TIER_1_STATES == <<"MA", "NY", "CA">>
TIER_2_STATES == <<"IL", "TX", "PA", "FL", "NJ", "OH">>
leads_per_page == 50
top_n_default == 50

\* Python's `x in list`
In(x, list) == x \in Range(list)

\* variant: a state outside both lists falls to Tier 2
classify_default_tier2(x) ==
    IF In(x, TIER_1_STATES) THEN "Tier 1"
    ELSE IF In(x, TIER_2_STATES) THEN "Tier 2" ELSE "Tier 2"

\* load_data: the lambda of the Priority_Tier column
classify(x) ==
    IF In(x, TIER_1_STATES) THEN "Tier 1"
    ELSE IF In(x, TIER_2_STATES) THEN "Tier 2" ELSE "Tier 3"

Digits == <<"0", "1", "2", "3", "4", "5", "6", "7", "8", "9">>

\* str() of a non-negative integer: its decimal digits
RECURSIVE IntToStr(_)
IntToStr(n) ==
    IF n < 10 THEN <<Digits[n + 1]>>
    ELSE Append(IntToStr(n \div 10), Digits[(n % 10) + 1])

\* how an f-string renders a State cell: the code itself, or "nan"
FormatState(s) == IF s = NaN THEN "nan" ELSE s

\* load_data: the lambda of the Perplexity_Query column (an f-string)
Perplexity_Query(row) ==
    << "Find the employee benefits decision-maker (HR Director, Benefits Manager, or CFO) for ",
       row.Employer_Name, " (EIN: ", IntToStr(row.EIN), ") in ", FormatState(row.State),
       ". Include their name, title, email, and phone if available." >>

\* load_data: the frame read from the csv plus the two derived columns
load_data(rows) ==
    [i \in DOMAIN rows |->
        [idx |-> rows[i].idx,
         Employer_Name |-> rows[i].Employer_Name,
         EIN |-> rows[i].EIN,
         State |-> rows[i].State,
         Participants |-> rows[i].Participants,
         Market_Segment |-> rows[i].Market_Segment,
         Plan_Name |-> rows[i].Plan_Name,
         Priority_Tier |-> classify(rows[i].State),
         Perplexity_Query |-> Perplexity_Query(rows[i])]]

----------------------------------------------------------------------------
(* Series.str.contains(pat, case, na=False): pandas searches pat as a      *)
(* regular expression (regex=True is the default).  The patterns of the    *)
(* model are made of literal characters and ".", which matches any one     *)
(* character.                                                              *)

Lower(c) == CASE c = "A" -> "a" [] c = "B" -> "b" [] c = "C" -> "c" [] OTHER -> c

CharMatch(p, c, case) ==
    \/ p = "."
    \/ IF case THEN p = c ELSE Lower(p) = Lower(c)

re_search(pat, s, case) ==
    \E start \in 0..(Len(s) - Len(pat)) :
        \A j \in 1..Len(pat) : CharMatch(pat[j], s[start + j], case)

\* a missing value in a column of strings
NaNStr == <<NaN>>

str_contains(s, pat, case) ==
    IF s = NaNStr THEN FALSE ELSE re_search(pat, s, case)

----------------------------------------------------------------------------
(* main: "Apply filters" *)

apply_filters(df, req) ==
    LET f1 == IF req.selected_states # {}
              THEN SelectSeq(df, LAMBDA r : r.State \in req.selected_states)
              ELSE df
        f2 == IF req.selected_tiers # {}
              THEN SelectSeq(f1, LAMBDA r : r.Priority_Tier \in req.selected_tiers)
              ELSE f1
        f3 == SelectSeq(f2, LAMBDA r : /\ r.Participants >= req.participant_range[1]
                                       /\ r.Participants <= req.participant_range[2])
        f4 == IF req.selected_segments # {}
              THEN SelectSeq(f3, LAMBDA r : r.Market_Segment \in req.selected_segments)
              ELSE f3
        f5 == IF req.search_employer # <<>>
              THEN SelectSeq(f4, LAMBDA r :
                       str_contains(r.Employer_Name, req.search_employer, FALSE))
              ELSE f4
        f6 == IF req.search_ein # <<>>
              THEN SelectSeq(f5, LAMBDA r :
                       str_contains(IntToStr(r.EIN), req.search_ein, TRUE))
              ELSE f5
    IN  f6

----------------------------------------------------------------------------
(* get_top_priority_leads *)

tier_order(t) == CASE t = "Tier 1" -> 0 [] t = "Tier 2" -> 1 [] t = "Tier 3" -> 2

\* variant: ascending=[True, True]
SortsBefore_ascending(df, i, j) ==
    \/ df[i].Tier_Rank < df[j].Tier_Rank
    \/ /\ df[i].Tier_Rank = df[j].Tier_Rank
       /\ df[i].Participants < df[j].Participants
    \/ /\ df[i].Tier_Rank = df[j].Tier_Rank
       /\ df[i].Participants = df[j].Participants
       /\ i < j

\* variant: a sort that reverses the rows with equal keys
SortsBefore_unstable(df, i, j) ==
    \/ df[i].Tier_Rank < df[j].Tier_Rank
    \/ /\ df[i].Tier_Rank = df[j].Tier_Rank
       /\ df[i].Participants > df[j].Participants
    \/ /\ df[i].Tier_Rank = df[j].Tier_Rank
       /\ df[i].Participants = df[j].Participants
       /\ i > j

\* DataFrame.sort_values(['Tier_Rank', 'Participants'], ascending=[True, False]):
\* whether the row at position i is placed before the row at position j.
\* pandas sorts on several columns with a stable lexsort (a descending key is
\* sorted on its reversed codes), so rows with equal keys keep their order.
SortsBefore(df, i, j) ==
    \/ df[i].Tier_Rank < df[j].Tier_Rank
    \/ /\ df[i].Tier_Rank = df[j].Tier_Rank
       /\ df[i].Participants > df[j].Participants
    \/ /\ df[i].Tier_Rank = df[j].Tier_Rank
       /\ df[i].Participants = df[j].Participants
       /\ i < j

sort_values(df) ==
    LET pos(i) == 1 + Cardinality({j \in DOMAIN df : SortsBefore(df, j, i)})
    IN  [p \in DOMAIN df |-> df[CHOOSE i \in DOMAIN df : pos(i) = p]]

\* df_sorted['Tier_Rank'] = df_sorted['Priority_Tier'].map(tier_order)
add_Tier_Rank(df) ==
    [i \in DOMAIN df |-> df[i] @@ [Tier_Rank |-> tier_order(df[i].Priority_Tier)]]

\* df_sorted.drop('Tier_Rank', axis=1)
drop_Tier_Rank(df) ==
    [i \in DOMAIN df |-> [c \in (DOMAIN df[i]) \ {"Tier_Rank"} |-> df[i][c]]]

\* variant: one row too many
head_one_more(df, n) == SubSeq(df, 1, Min(n + 1, Len(df)))

\* DataFrame.head(n), n >= 0
head(df, n) == SubSeq(df, 1, Min(n, Len(df)))

rank(df) == drop_Tier_Rank(sort_values(add_Tier_Rank(df)))

get_top_priority_leads(df, n) == head(rank(df), n)

\* variant: df_sorted = df, the Tier_Rank column lands in the caller's frame
caller_frame_after_no_copy(df) == add_Tier_Rank(df)

\* df_sorted = df.copy(): the Tier_Rank column is assigned to the copy, so the
\* caller's frame is after the call what it was before
caller_frame_after(df) == df

----------------------------------------------------------------------------
(* Summary statistics *)

\* the k-th smallest Participants value of a non-empty frame
KthSmallest(df, k) ==
    CHOOSE v \in {df[i].Participants : i \in DOMAIN df} :
        /\ Cardinality({i \in DOMAIN df : df[i].Participants < v}) < k
        /\ Cardinality({i \in DOMAIN df : df[i].Participants <= v}) >= k

RECURSIVE SumParticipants(_)
SumParticipants(df) ==
    IF df = <<>> THEN 0 ELSE df[1].Participants + SumParticipants(Tail(df))

\* df['Participants'].median() and .mean() of a frame without rows are NaN,
\* and int(NaN) raises ValueError
stat_is_NaN(df) == Len(df) = 0

\* int(df['Participants'].median()) of a frame with rows
int_median(df) ==
    IF Len(df) % 2 = 1 THEN KthSmallest(df, (Len(df) + 1) \div 2)
    ELSE (KthSmallest(df, Len(df) \div 2) + KthSmallest(df, Len(df) \div 2 + 1)) \div 2

\* int(top_leads['Participants'].mean()) of a frame with rows
int_mean(df) == SumParticipants(df) \div Len(df)

----------------------------------------------------------------------------
(* main: the "Lead Table" tab *)

\* variant: len(df_filtered) // leads_per_page + 1
page_count_plus_one(n_items, page_size) == n_items \div page_size + 1

\* (len(df_filtered) - 1) // leads_per_page + 1; Python's // rounds down
page_count(n_items, page_size) == (n_items - 1) \div page_size + 1

display_cols ==
    {"Employer_Name", "EIN", "State", "Participants", "Market_Segment",
     "Priority_Tier", "Plan_Name"}

\* df[display_cols]; the frame keeps its index labels
project(df, cols) ==
    [i \in DOMAIN df |-> [c \in cols \cup {"idx"} |-> df[i][c]]]

\* df.iloc[start:end]: a slice is clipped to the frame
iloc(df, start, end) ==
    IF start >= Len(df) THEN <<>>
    ELSE [i \in 1..(Min(end, Len(df)) - start) |-> df[start + i]]

\* variant: start_idx = page * leads_per_page
paginate_from_page(df, page_size, p) ==
    LET start_idx == p * page_size
        end_idx == start_idx + page_size
    IN  iloc(project(df, display_cols), start_idx, end_idx)

\* df_filtered[display_cols].iloc[(page - 1) * k : (page - 1) * k + k]
paginate(df, page_size, p) ==
    LET start_idx == (p - 1) * page_size
        end_idx == start_idx + page_size
    IN  iloc(project(df, display_cols), start_idx, end_idx)

\* df_filtered[df_filtered['Employer_Name'] == selected_employer].iloc[0]
lookup_lead(df, selected_employer) ==
    SelectSeq(df, LAMBDA r : r.Employer_Name = selected_employer)[1]

----------------------------------------------------------------------------
(* Inputs: the csv files and the widget values the model draws *)

Names == { <<"A", "b", "c">>, <<"a", "c">> }
Sizes == {3000, 6000}
AllTiers == {"Tier 1", "Tier 2", "Tier 3"}

\* every state of the tier table, two states outside it and a missing state
LoadStates == Range(TIER_1_STATES) \cup Range(TIER_2_STATES) \cup {"WY", "ZZ", NaN}
MainStates == {"MA", "TX", NaN}
RankStates == {"MA", "TX", "WY"}

\* row i of a csv file; EINs are distinct, the segment follows the size
CsvRow(i, name, state, size) ==
    [idx |-> i - 1,
     Employer_Name |-> name,
     EIN |-> 10 + i,
     State |-> state,
     Participants |-> size,
     Market_Segment |-> IF size >= 5000 THEN "Large (5K+)" ELSE "Mid",
     Plan_Name |-> "Plan"]

\* the csv files of 1..maxlen rows
CsvFiles(maxlen, names, states, sizes) ==
    UNION { { [i \in 1..n |-> CsvRow(i, f[i][1], f[i][2], f[i][3])] :
                f \in [1..n -> names \X states \X sizes] } : n \in 1..maxlen }

\* a long csv: the two names alternate, so every name repeats on every page
LongCsv(n) ==
    [i \in 1..n |->
        CsvRow(i, IF i % 2 = 1 THEN <<"A", "b", "c">> ELSE <<"a", "c">>,
               "MA", IF i % 3 = 0 THEN 6000 ELSE 3000)]

EmployerSearches == { <<>>, <<"a", "c">>, <<"a", ".", "c">>, <<"z">> }
EinSearches == { <<>>, <<"2">> }
Ranges == { <<500, 10000>>, <<4000, 10000>> }

\* the widget values of one run over the loaded frame df
Requests(df) ==
    [selected_states : { {}, {r.State : r \in Range(df)} \ {NaN} },
     selected_tiers : { {}, {"Tier 1"}, AllTiers },
     participant_range : Ranges,
     selected_segments : { {}, {"Large (5K+)"} },
     search_employer : EmployerSearches,
     search_ein : EinSearches]

\* every widget left so that it constrains nothing
Unconstrained ==
    [selected_states |-> {}, selected_tiers |-> {},
     participant_range |-> <<500, 10000>>, selected_segments |-> {},
     search_employer |-> <<>>, search_ein |-> <<>>]

\* a search for an employer name that no lead has
NoMatch == [Unconstrained EXCEPT !.search_employer = <<"z">>]

\* only the leads of 4000 participants and more
LargeOnly == [Unconstrained EXCEPT !.participant_range = <<4000, 10000>>]

----------------------------------------------------------------------------
(* The script *)

\* @st.cache_data: load_data() runs once, later calls return what it returned
cached_load(c, rows) == IF c = None THEN load_data(rows) ELSE Val(c)

\* the "Lead Table" tab from "# Pagination" on, over the filtered frame dff
TableTab(dff) ==
    LET tp == page_count(Len(dff), leads_per_page) IN
    /\ total_pages' = Some(tp)
    /\ IF tp > 0
       THEN \E p \in 1..tp :
              LET pg == paginate(dff, leads_per_page, p) IN
              /\ page' = Some(p)
              /\ df_page' = Some(pg)
              /\ \E k \in DOMAIN pg :
                   LET selected_employer == pg[k].Employer_Name IN
                   /\ picked' = Some(k)
                   /\ query' = IF selected_employer # <<>>
                               THEN Some(lookup_lead(dff, selected_employer).Perplexity_Query)
                               ELSE None
       ELSE /\ page' = None
            /\ df_page' = None
            /\ picked' = None
            /\ query' = None

\* the "Top Priority" tab over the filtered frame dff
TopTab(dff) ==
    LET top == get_top_priority_leads(dff, top_n_default) IN
    /\ n_arg' = Some(top_n_default)
    /\ top_leads' = Some(top)
    /\ df_filtered' = Some(caller_frame_after(dff))
    /\ IF stat_is_NaN(top)
       THEN /\ avg_participants' = None
            /\ status' = "ValueError at line 406"
       ELSE /\ avg_participants' = Some(int_mean(top))
            /\ status' = "ok"

NoTableTab == /\ total_pages' = None /\ page' = None /\ df_page' = None
              /\ picked' = None /\ query' = None

NoTopTab == /\ n_arg' = None /\ top_leads' = None /\ avg_participants' = None

\* one run of main() over a csv that has rows: load, read the widgets, filter,
\* render the three tabs.  An exception ends the run where it is raised.
Rerun ==
    /\ status = "idle"
    /\ UNCHANGED csv
    /\ LET df0 == cached_load(cache, csv) IN
       /\ cache' = Some(df0)
       /\ df_original' = Some(df0)
       /\ \E req \in Requests(df0) :
            LET dff == apply_filters(df0, req) IN
            /\ request' = Some(req)
            /\ IF stat_is_NaN(dff)
               THEN /\ df_filtered' = Some(dff)
                    /\ median' = None
                    /\ status' = "ValueError at line 81"
                    /\ NoTableTab
                    /\ NoTopTab
               ELSE /\ median' = Some(int_median(dff))
                    /\ TableTab(dff)
                    /\ TopTab(dff)

\* the run's output is discarded when the user changes a widget; the locals
\* of main() are gone, the cache stays
EndRun ==
    /\ status # "idle"
    /\ status' = "idle"
    /\ UNCHANGED <<csv, cache>>
    /\ df_original' = None
    /\ request' = None
    /\ df_filtered' = None
    /\ median' = None
    /\ NoTableTab
    /\ NoTopTab

NoRun ==
    /\ request = None /\ status = "idle" /\ df_filtered = None /\ median = None
    /\ total_pages = None /\ page = None /\ df_page = None /\ picked = None
    /\ query = None /\ n_arg = None /\ top_leads = None /\ avg_participants = None

Init ==
    /\ csv \in CsvFiles(MaxLeads, Names, MainStates, Sizes)
    /\ cache = None
    /\ df_original = None
    /\ NoRun

Next == Rerun \/ EndRun

Spec == Init /\ [][Next]_vars

----------------------------------------------------------------------------
(* load_data on its own *)

LoadData ==
    /\ cache = None
    /\ cache' = Some(load_data(csv))
    /\ df_original' = Some(load_data(csv))
    /\ UNCHANGED <<csv, request, status, df_filtered, median, total_pages, page,
                   df_page, picked, query, n_arg, top_leads, avg_participants>>

InitLoad ==
    /\ csv \in CsvFiles(MaxLoad, { <<"a", "c">> }, LoadStates, {3000})
    /\ cache = None
    /\ df_original = None
    /\ NoRun

SpecLoad == InitLoad /\ [][LoadData]_vars

----------------------------------------------------------------------------
(* get_top_priority_leads on its own, over a loaded and filtered frame *)

CallTopN ==
    /\ top_leads = None
    /\ \E n \in 0..MaxTopN :
         /\ n_arg' = Some(n)
         /\ top_leads' = Some(get_top_priority_leads(Val(df_filtered), n))
    /\ df_filtered' = Some(caller_frame_after(Val(df_filtered)))
    /\ UNCHANGED <<csv, cache, df_original, request, status, median,
                   total_pages, page, df_page, picked, query, avg_participants>>

\* main() has loaded one of the csv files and filtered it by one of the requests
InitFiltered(files, requests) ==
    /\ csv \in files
    /\ cache = Some(load_data(csv))
    /\ df_original = Some(load_data(csv))
    /\ \E req \in requests :
         /\ request = Some(req)
         /\ df_filtered = Some(apply_filters(load_data(csv), req))
    /\ status = "idle" /\ median = None
    /\ total_pages = None /\ page = None /\ df_page = None /\ picked = None
    /\ query = None /\ n_arg = None /\ top_leads = None /\ avg_participants = None

InitRank ==
    InitFiltered(CsvFiles(MaxRank, { <<"a", "c">> }, RankStates, Sizes),
                 {Unconstrained, LargeOnly, NoMatch})

SpecRank == InitRank /\ [][CallTopN]_vars

----------------------------------------------------------------------------
(* the "Lead Table" tab on its own, over a loaded and filtered frame *)

ViewTable ==
    /\ total_pages = None
    /\ TableTab(Val(df_filtered))
    /\ UNCHANGED <<csv, cache, df_original, request, status, df_filtered, median,
                   n_arg, top_leads, avg_participants>>

InitPaging ==
    \/ InitFiltered({ LongCsv(n) : n \in 1..MaxItems }, {Unconstrained})
    \/ InitFiltered({ LongCsv(1) }, {NoMatch})

SpecPaging == InitPaging /\ [][ViewTable]_vars

----------------------------------------------------------------------------
(* Properties *)

\* position of row r in a frame whose rows are distinct
PosIn(df, r) == CHOOSE i \in DOMAIN df : df[i] = r

NoDuplicates(df) == \A i, j \in DOMAIN df : i # j => df[i] # df[j]

\* C1: tier classification at load is total and follows the static table:
\* every row of the csv is loaded, its tier is one of Tier 1, Tier 2, Tier 3;
\* it is Tier 1 if its state is in TIER_1_STATES, otherwise Tier 2 if its
\* state is in TIER_2_STATES, otherwise (a state outside the table, a missing
\* state) Tier 3; and the two lists share no state.
C1_TierTotal ==
    cache # None =>
        /\ Len(Val(cache)) = Len(csv)
        /\ Range(TIER_1_STATES) \cap Range(TIER_2_STATES) = {}
        /\ \A i \in DOMAIN csv :
             LET s == csv[i].State
                 t == Val(cache)[i].Priority_Tier
             IN  /\ t \in AllTiers
                 /\ s \in Range(TIER_1_STATES) => t = "Tier 1"
                 /\ (s \notin Range(TIER_1_STATES) /\ s \in Range(TIER_2_STATES))
                        => t = "Tier 2"
                 /\ s \notin (Range(TIER_1_STATES) \cup Range(TIER_2_STATES))
                        => t = "Tier 3"

\* a loaded csv with a missing state and a state outside the table, both
\* in Tier 3, next to nothing else
C1_Witness ==
    /\ cache # None
    /\ Len(csv) = 2
    /\ csv[1].State = NaN /\ Val(cache)[1].Priority_Tier = "Tier 3"
    /\ csv[2].State = "ZZ" /\ Val(cache)[2].Priority_Tier = "Tier 3"

IsSubstring(t, s) ==
    \E start \in 0..(Len(s) - Len(t)) : \A j \in 1..Len(t) : s[start + j] = t[j]

LowerStr(s) == [i \in DOMAIN s |-> Lower(s[i])]

\* the conjunction of the six dimensions, an empty dimension matching all
MatchesRequest(r, req) ==
    /\ req.selected_states # {} => r.State \in req.selected_states
    /\ req.selected_tiers # {} => r.Priority_Tier \in req.selected_tiers
    /\ req.participant_range[1] <= r.Participants
    /\ r.Participants <= req.participant_range[2]
    /\ req.selected_segments # {} => r.Market_Segment \in req.selected_segments
    /\ req.search_employer # <<>> =>
          /\ r.Employer_Name # NaNStr
          /\ IsSubstring(LowerStr(req.search_employer), LowerStr(r.Employer_Name))
    /\ req.search_ein # <<>> => IsSubstring(req.search_ein, IntToStr(r.EIN))

\* C2: the filter result is the order-preserving subsequence of the loaded
\* leads that satisfy the AND of all dimensions (state set, tier set,
\* inclusive participants range, segment set, case-insensitive employer-name
\* substring, EIN substring), an empty dimension matching every lead.
C2_FilterIsConjunction ==
    (df_filtered # None /\ request # None) =>
        Val(df_filtered) =
            SelectSeq(Val(df_original), LAMBDA r : MatchesRequest(r, Val(request)))

TierIndex(t) == IF t = "Tier 1" THEN 1 ELSE IF t = "Tier 2" THEN 2 ELSE 3

\* a has the better tier, or the same tier and more participants
RanksAbove(a, b) ==
    \/ TierIndex(a.Priority_Tier) < TierIndex(b.Priority_Tier)
    \/ /\ a.Priority_Tier = b.Priority_Tier
       /\ a.Participants > b.Participants

SameKeys(a, b) ==
    a.Priority_Tier = b.Priority_Tier /\ a.Participants = b.Participants

\* C3: the ranked leads are leads of the input, each once, all of them when
\* n is at least their number; and whenever a has the better tier than b, or
\* the same tier and more participants, a comes before b in the output (and
\* is in the output if b is).
C3_RankOrder ==
    top_leads # None =>
        LET in == Val(df_filtered)
            out == Val(top_leads)
        IN  /\ Range(out) \subseteq Range(in)
            /\ NoDuplicates(out)
            /\ Val(n_arg) >= Len(in) => Len(out) = Len(in)
            /\ \A a, b \in Range(in) :
                 (RanksAbove(a, b) /\ b \in Range(out)) =>
                     /\ a \in Range(out)
                     /\ PosIn(out, a) < PosIn(out, b)

\* all three leads are ranked; a Tier 3 lead with more participants than a
\* Tier 1 lead came first in the input and comes after it in the output
C3_Witness ==
    /\ top_leads # None
    /\ Len(Val(top_leads)) = 3
    /\ \E a, b \in Range(Val(df_filtered)) :
         /\ a.Priority_Tier = "Tier 1" /\ b.Priority_Tier = "Tier 3"
         /\ b.Participants > a.Participants
         /\ PosIn(Val(df_filtered), b) < PosIn(Val(df_filtered), a)
         /\ PosIn(Val(top_leads), a) < PosIn(Val(top_leads), b)

\* C4: ranking is stable: two ranked leads with equal tier and equal
\* participants are in the output in the order they have in the input.
C4_Stable ==
    top_leads # None =>
        LET in == Val(df_filtered)
            out == Val(top_leads)
        IN  \A i, j \in DOMAIN out :
              (i < j /\ SameKeys(out[i], out[j])) =>
                  PosIn(in, out[i]) < PosIn(in, out[j])

\* two leads with equal keys are ranked, and a lead that was between them in
\* the input has been moved by the sort
C4_Witness ==
    /\ top_leads # None
    /\ Len(Val(df_filtered)) = 3
    /\ Len(Val(top_leads)) = 3
    /\ SameKeys(Val(df_filtered)[1], Val(df_filtered)[3])
    /\ ~SameKeys(Val(df_filtered)[1], Val(df_filtered)[2])
    /\ Val(top_leads) # Val(df_filtered)

\* C5: the top n leads are the first n leads of the ranking: min(n, number of
\* leads) leads that are a prefix of the ranking of all the leads; fewer than
\* n leads, and no leads, are returned as they are.
C5_TopN ==
    top_leads # None =>
        LET in == Val(df_filtered)
            out == Val(top_leads)
            all == get_top_priority_leads(in, Len(in))
        IN  /\ Len(out) = Min(Val(n_arg), Len(in))
            /\ Len(all) = Len(in)
            /\ \A i \in DOMAIN out : out[i] = all[i]

\* n cuts the ranking short
C5_Witness ==
    /\ top_leads # None
    /\ Val(n_arg) = 2
    /\ Len(Val(df_filtered)) = 3
    /\ Len(Val(top_leads)) = 2

RECURSIVE ConcatPages(_, _, _)
ConcatPages(df, k, p) ==
    IF p = 0 THEN <<>> ELSE ConcatPages(df, k, p - 1) \o paginate(df, k, p)

\* page sizes the slicing is checked for: the table's and a smaller one
PageSizes == {leads_per_page, leads_per_page \div 3}

\* C6: pagination partitions the filtered leads: for each page size k, page
\* p is the slice [(p-1)*k, p*k) clipped to the leads, at most k leads long;
\* the pages 1..page_count in order make up the leads again, none lost,
\* repeated or moved; a page after the last one is empty; and the page on
\* display is the page of the number entered.
C6_Partition ==
    df_filtered # None =>
        \A k \in PageSizes :
        LET L == Val(df_filtered)
            n == page_count(Len(L), k)
        IN  /\ \A p \in 1..(n + 2) :
                 LET pg == paginate(L, k, p) IN
                 /\ Len(pg) <= k
                 /\ Len(pg) = IF p * k <= Len(L) THEN k
                              ELSE IF (p - 1) * k < Len(L) THEN Len(L) - (p - 1) * k
                              ELSE 0
                 /\ \A i \in DOMAIN pg :
                      /\ pg[i].idx = L[(p - 1) * k + i].idx
                      /\ \A c \in display_cols : pg[i][c] = L[(p - 1) * k + i][c]
                 /\ p > n => pg = <<>>
            /\ LET all == ConcatPages(L, k, n) IN
               /\ Len(all) = Len(L)
               /\ \A i \in DOMAIN L : all[i].idx = L[i].idx
            /\ df_page # None => Val(df_page) = paginate(L, leads_per_page, Val(page))

\* the third and last page of more than two full pages of leads is on
\* display, and it is not full
C6_Witness ==
    /\ df_page # None
    /\ Val(page) = 3
    /\ Val(total_pages) = 3
    /\ Len(Val(df_filtered)) > 2 * leads_per_page
    /\ Len(Val(df_page)) < leads_per_page
    /\ Len(Val(df_page)) > 0

ViewsAreStoreLeads ==
    /\ df_original # None => df_original = cache
    /\ df_filtered # None => Range(Val(df_filtered)) \subseteq Range(Val(cache))
    /\ top_leads # None => Range(Val(top_leads)) \subseteq Range(Val(cache))
    /\ df_page # None =>
          Range(Val(df_page)) \subseteq Range(project(Val(cache), display_cols))

\* C8: the loaded store is read-only: no step of any run changes the store
\* once it is loaded (the same leads in the same order, each with the field
\* values and the tier of the load), and what a run filters, ranks and pages
\* are leads of the store as they are in the store.
C8_StoreReadOnly ==
    [][ /\ cache # None => cache' = cache
        /\ cache' # None => Val(cache') = load_data(csv')
        /\ ViewsAreStoreLeads' ]_vars

\* a run with a search term that keeps both leads of the store: it ranked
\* them into another order and shows a page
C8_Witness ==
    /\ status = "ok"
    /\ Val(request).search_employer # <<>>
    /\ Len(Val(df_filtered)) = 2
    /\ Val(top_leads) # Val(df_filtered)
    /\ df_page # None
    /\ Val(cache) = load_data(csv)

\* C9: when the filter matches no lead, the median and the average of
\* participants are an absent result and the run does not raise.
C9_EmptyStatsDoNotRaise ==
    (df_filtered # None /\ Val(df_filtered) = <<>>) => status = "ok"

====
